---- MODULE Spec2Model ----
(***************************************************************************)
(* Model of mapper.go: the reconciliation of a Keycloak realm's group tree *)
(* against its realm roles.  The provider (the realm's role catalogue and  *)
(* every group's realm-role list) is the remote state; missingRoles and    *)
(* groupsWithMissingRole are the program's accumulators.                   *)
(***************************************************************************)
EXTENDS Integers, Sequences, FiniteSets, TLC

\* ------------------------------------------------------------------ bounds

\* Largest number of groups in the realm.
MaxGroups == 2

\* Largest number of remote calls that return an error in one behaviour.
MaxFaults == 1

\* Group and role names; "a" and "A" differ only in letter case.
Names == {"a", "A"}

\* The order in which the provider lists role names.
NameOrder == <<"A", "a">>

\* The operator's answers on standard input.  A string of the program is the
\* sequence of its runes (Unicode code points); the answers are made of runes
\* below 256.
Answers ==
  { <<89, 10>>,                    \* "Y\n"
    <<32, 121, 101, 115, 10>>,     \* " yes\n"
    <<12, 121, 10>>,               \* form feed, "y\n"
    <<160, 133, 89, 13, 10>>,      \* U+00A0, U+0085, "Y\r\n"
    <<110, 10>>,                   \* "n\n"
    <<110, 121, 10>>,              \* "ny\n"
    <<111, 107, 97, 121, 10>>,     \* "okay\n"
    <<10>>,                        \* "\n"
    <<>> }                         \* end of input

VARIABLES
  parent,                 \* provider: group id -> id of its parent group, 0 for a root
  name,                   \* provider: group id -> display name
  roles,                  \* provider: names of the realm roles that exist
  realmRoles,             \* provider: group id -> list of mapped realm-role names
  dryRunOnly,             \* the dry.run.only property
  missingRoles,           \* accumulator: role names to create
  groupsWithMissingRole,  \* accumulator: group id -> group name
  todo,                   \* the walk's pending groups, innermost loop first
  visited,                \* group ids in the order prepareMapperForGroup was entered
  classified,             \* group id -> value of groupMapped when it was visited
  pc,                     \* position of the program
  answer,                 \* the line read from standard input
  nextRole,               \* index of the next element of missingRoles to create
  toMap,                  \* keys of groupsWithMissingRole not yet iterated
  calls,                  \* write calls issued to the provider, in order
  lastAdd,                \* arguments of the latest AddRealmRoles call
  roles0,                 \* roles when this run started
  realmRoles0,            \* realmRoles when this run started
  rerun,                  \* the program has been started a second time
  confirmed,              \* the first run's answer was affirmative
  faults                  \* remote calls that returned an error

vars == <<parent, name, roles, realmRoles, dryRunOnly, missingRoles,
          groupsWithMissingRole, todo, visited, classified, pc, answer,
          nextRole, toMap, calls, lastAdd, roles0, realmRoles0, rerun,
          confirmed, faults>>

provider == <<parent, name, roles, realmRoles>>

\* ----------------------------------------------------------------- helpers

Range(s) == {s[i] : i \in DOMAIN s}

EmptyMap == [g \in {} |-> "a"]

NoAdd == [gid |-> 0, roles |-> <<>>, existed |-> FALSE]

\* The ids of the realm's groups.
Ids == DOMAIN parent

\* A set of role names as the provider lists it.
ListOf(S) == SelectSeq(NameOrder, LAMBDA r : r \in S)

\* The ids in S in ascending order.
RECURSIVE Ascending(_)
Ascending(S) ==
  IF S = {} THEN <<>>
  ELSE LET m == CHOOSE x \in S : \A y \in S : x <= y
       IN <<m>> \o Ascending(S \ {m})

\* group.SubGroups of a listed group (0: the roots returned by Groups.List).
SubGroups(g) == Ascending({c \in Ids : parent[c] = g})

\* ------------------------------------------------------------- strings

\* unicode.IsSpace: \t, \n, \v, \f, \r, the space, U+0085, U+00A0 and the
\* other runes with the White_Space property.
IsSpace(c) ==
  c \in ({9, 10, 11, 12, 13, 32, 133, 160, 5760, 8232, 8233, 8239, 8287, 12288}
          \cup (8192..8202))

RECURSIVE TrimLeft(_)
TrimLeft(s) ==
  IF s # <<>> /\ IsSpace(Head(s)) THEN TrimLeft(Tail(s)) ELSE s

RECURSIVE TrimRight(_)
TrimRight(s) ==
  IF s # <<>> /\ IsSpace(s[Len(s)]) THEN TrimRight(SubSeq(s, 1, Len(s) - 1)) ELSE s

\* strings.TrimSpace
TrimSpace(s) == TrimRight(TrimLeft(s))

\* unicode.ToUpper on the runes below 256: a to z, the Latin-1 letters
\* U+00E0 to U+00FE but the division sign, y with diaeresis, the micro sign.
UpperChar(c) ==
  IF c \in 97..122 THEN c - 32
  ELSE IF c \in (224..254) \ {247} THEN c - 32
  ELSE IF c = 255 THEN 376
  ELSE IF c = 181 THEN 924
  ELSE c

\* strings.ToUpper
ToUpper(s) == [i \in DOMAIN s |-> UpperChar(s[i])]

\* strings.HasPrefix
HasPrefix(s, p) == Len(s) >= Len(p) /\ SubSeq(s, 1, Len(p)) = p

\* A test that looks for the letter anywhere in the answer.
Affirmative_contains(a) == 89 \in Range(ToUpper(TrimSpace(a)))

\* The test of createRolesAndMappings on the answer.
Affirmative(a) == HasPrefix(ToUpper(TrimSpace(a)), <<89>>)

\* ------------------------------------------------------------ provider

NoRole == [ID |-> "", Name |-> ""]

\* A lookup that answers with a role of the asked name whether or not it exists.
getRoleGyName_assumed(n) == [ID |-> n, Name |-> n]

\* RealmRoles.GetByName: the role of that name, or a role without ID.
getRoleGyName(n) == IF n \in roles THEN [ID |-> n, Name |-> n] ELSE NoRole

\* Groups.Get: the group with its mapped realm-role names.
GetGroup(gid) == [ID |-> gid, Name |-> name[gid], RealmRoles |-> realmRoles[gid]]

\* -------------------------------------------------------------- the walk

UpperName(n) == IF n = "a" THEN "A" ELSE n

\* A comparison of the names that ignores letter case.
RECURSIVE groupMapped_nocase(_, _)
groupMapped_nocase(rs, n) ==
  IF rs = <<>> THEN FALSE
  ELSE IF UpperName(Head(rs)) = UpperName(n) THEN TRUE
  ELSE groupMapped_nocase(Tail(rs), n)

\* The loop over g.RealmRoles: some role name equals the group's name.
RECURSIVE groupMapped(_, _)
groupMapped(rs, n) ==
  IF rs = <<>> THEN FALSE
  ELSE IF Head(rs) = n THEN TRUE
  ELSE groupMapped(Tail(rs), n)

\* A recording that notes the group only when its role is missing too.
recordMissing_onlyNewRoles(mr, gm, g, mapped, mappedRole) ==
  IF mapped \/ mappedRole.ID # "" THEN [missingRoles |-> mr, groupsWithMissingRole |-> gm]
  ELSE [missingRoles |-> Append(mr, g.Name),
        groupsWithMissingRole |-> [k \in DOMAIN gm \cup {g.ID} |->
                                     IF k = g.ID THEN g.Name ELSE gm[k]]]

\* The accumulators after the group was classified.
recordMissing(mr, gm, g, mapped, mappedRole) ==
  IF mapped THEN [missingRoles |-> mr, groupsWithMissingRole |-> gm]
  ELSE [missingRoles |-> IF mappedRole.ID = "" THEN Append(mr, g.Name) ELSE mr,
        groupsWithMissingRole |-> [k \in DOMAIN gm \cup {g.ID} |->
                                     IF k = g.ID THEN g.Name ELSE gm[k]]]

\* A walk that does not enter the sub-groups.
descend_flat(gid, rest) == rest

\* The groups still to visit once gid was classified: its sub-groups first.
descend(gid, rest) == SubGroups(gid) \o rest

anyConfigurationNeeded ==
  Len(missingRoles) > 0 \/ DOMAIN groupsWithMissingRole # {}

\* ------------------------------------------------------------------ Init

Init ==
  /\ \E n \in 0..MaxGroups :
       /\ parent \in {p \in [1..n -> 0..n] : \A i \in 1..n : p[i] < i}
       /\ name \in [1..n -> Names]
       /\ roles \in SUBSET Names
       /\ realmRoles \in [1..n -> {ListOf(S) : S \in SUBSET roles}]
  /\ dryRunOnly \in BOOLEAN
  /\ missingRoles = <<>>
  /\ groupsWithMissingRole = EmptyMap
  /\ todo = <<>>
  /\ visited = <<>>
  /\ classified = [g \in {} |-> FALSE]
  /\ pc = "start"
  /\ answer = <<>>
  /\ nextRole = 1
  /\ toMap = {}
  /\ calls = <<>>
  /\ lastAdd = NoAdd
  /\ roles0 = roles
  /\ realmRoles0 = realmRoles
  /\ rerun = FALSE
  /\ confirmed = FALSE
  /\ faults = 0

\* --------------------------------------------------------------- actions

\* Whether a remote call comes back with a nil error: a failure is possible
\* while the behaviour has failures left.  The client gives a nil error for
\* an answer of the provider with an error status, as the tests of a nil ID
\* after a nil error show; creating a role that exists leaves the roles as
\* they are.
MayFail == IF faults < MaxFaults THEN {TRUE, FALSE} ELSE {TRUE}

\* addRoleToGroup's two remote calls: both succeed, the lookup fails, or the
\* lookup succeeds and AddRealmRoles fails.
Outcomes == IF faults < MaxFaults THEN {"ok", "lookupErr", "addErr"} ELSE {"ok"}

\* Groups.List, then the loop over the root groups.
prepareMapper ==
  /\ pc = "start"
  /\ \E ok \in MayFail :
       IF ok
       THEN /\ todo' = SubGroups(0)
            /\ pc' = IF todo' = <<>> THEN "print" ELSE "walk"
            /\ UNCHANGED faults
       ELSE /\ pc' = "panic"
            /\ faults' = faults + 1
            /\ UNCHANGED todo
  /\ UNCHANGED <<provider, dryRunOnly, missingRoles, groupsWithMissingRole,
                 visited, classified, answer, nextRole, toMap, calls, lastAdd,
                 roles0, realmRoles0, rerun, confirmed>>

\* One call of prepareMapperForGroup up to its loop over the sub-groups.
prepareMapperForGroup ==
  /\ pc = "walk"
  /\ todo # <<>>
  /\ \E ok \in MayFail :
       IF ok
       THEN LET gid == Head(todo)
                g == GetGroup(gid)
                mapped == groupMapped(g.RealmRoles, g.Name)
                mappedRole == getRoleGyName(g.Name)
                acc == recordMissing(missingRoles, groupsWithMissingRole,
                                     g, mapped, mappedRole)
            IN /\ missingRoles' = acc.missingRoles
               /\ groupsWithMissingRole' = acc.groupsWithMissingRole
               /\ visited' = Append(visited, gid)
               /\ classified' = [k \in DOMAIN classified \cup {gid} |->
                                   IF k = gid THEN mapped ELSE classified[k]]
               /\ todo' = descend(gid, Tail(todo))
               /\ pc' = IF todo' = <<>> THEN "print" ELSE "walk"
               /\ UNCHANGED faults
       ELSE /\ pc' = "panic"
            /\ faults' = faults + 1
            /\ UNCHANGED <<missingRoles, groupsWithMissingRole, visited,
                           classified, todo>>
  /\ UNCHANGED <<provider, dryRunOnly, answer, nextRole, toMap, calls, lastAdd,
                 roles0, realmRoles0, rerun, confirmed>>

\* A report that empties the list of roles it has printed.
printMapper_drains ==
  /\ pc = "print"
  /\ pc' = IF dryRunOnly THEN "done" ELSE "confirm"
  /\ missingRoles' = <<>>
  /\ UNCHANGED <<provider, dryRunOnly, groupsWithMissingRole, todo,
                 visited, classified, answer, nextRole, toMap, calls, lastAdd,
                 roles0, realmRoles0, rerun, confirmed, faults>>

\* The report, and main's choice between the dry run and the apply phase.
printMapper ==
  /\ pc = "print"
  /\ pc' = IF dryRunOnly THEN "done" ELSE "confirm"
  /\ UNCHANGED <<provider, dryRunOnly, missingRoles, groupsWithMissingRole, todo,
                 visited, classified, answer, nextRole, toMap, calls, lastAdd,
                 roles0, realmRoles0, rerun, confirmed, faults>>

\* An apply phase that starts the mappings after the first role creation.
phaseAfterCreate_early(i, mr) == "mapping"

\* The position after the role creations up to index i - 1 were made.
phaseAfterCreate(i, mr) == IF i > Len(mr) THEN "mapping" ELSE "creating"

\* createRolesAndMappings up to the test of the answer.
createRolesAndMappings ==
  /\ pc = "confirm"
  /\ IF ~anyConfigurationNeeded
     THEN /\ pc' = "done"
          /\ UNCHANGED <<answer, nextRole, toMap, confirmed>>
     ELSE \E a \in Answers :
            /\ answer' = a
            /\ IF Affirmative(a)
               THEN /\ nextRole' = 1
                    /\ toMap' = DOMAIN groupsWithMissingRole
                    /\ pc' = phaseAfterCreate(1, missingRoles)
                    /\ confirmed' = (confirmed \/ ~rerun)
               ELSE /\ pc' = "done"
                    /\ UNCHANGED <<nextRole, toMap, confirmed>>
  /\ UNCHANGED <<provider, dryRunOnly, missingRoles, groupsWithMissingRole, todo,
                 visited, classified, calls, lastAdd, roles0, realmRoles0,
                 rerun, faults>>

\* One iteration of the loop over missingRoles.
createRoleByName ==
  /\ pc = "creating"
  /\ nextRole <= Len(missingRoles)
  /\ \E sent \in MayFail :
       LET n == missingRoles[nextRole]
           ok == sent
       IN /\ calls' = Append(calls, [op |-> "CreateRole", ok |-> ok])
          /\ faults' = IF sent THEN faults ELSE faults + 1
          /\ IF ok
             THEN /\ roles' = roles \cup {n}
                  /\ nextRole' = nextRole + 1
                  /\ pc' = phaseAfterCreate(nextRole + 1, missingRoles)
             ELSE /\ pc' = "panic"
                  /\ UNCHANGED <<roles, nextRole>>
  /\ UNCHANGED <<parent, name, realmRoles, dryRunOnly, missingRoles,
                 groupsWithMissingRole, todo, visited, classified, answer,
                 toMap, lastAdd, roles0, realmRoles0, rerun, confirmed>>

\* One iteration of the loop over groupsWithMissingRole, in the map's order.
addRoleToGroup ==
  /\ pc = "mapping"
  /\ \E groupID \in toMap, out \in Outcomes :
       LET groupName == groupsWithMissingRole[groupID]
           mappedRole == getRoleGyName(groupName)
       IN IF out = "lookupErr" \/ mappedRole.ID = ""
          THEN /\ pc' = "panic"
               /\ faults' = IF out = "lookupErr" THEN faults + 1 ELSE faults
               /\ UNCHANGED <<realmRoles, toMap, calls, lastAdd>>
          ELSE LET ok == out = "ok" /\ mappedRole.Name \in roles
               IN /\ calls' = Append(calls, [op |-> "AddRealmRoles", ok |-> ok])
                  /\ lastAdd' = [gid |-> groupID, roles |-> <<mappedRole.Name>>,
                                 existed |-> mappedRole.Name \in roles]
                  /\ realmRoles' =
                       IF ok
                       THEN [realmRoles EXCEPT ![groupID] =
                               ListOf(Range(@) \cup {mappedRole.Name})]
                       ELSE realmRoles
                  /\ toMap' = toMap \ {groupID}
                  /\ pc' = IF toMap' = {} THEN "done" ELSE "mapping"
                  /\ faults' = IF out = "addErr" THEN faults + 1 ELSE faults
  /\ UNCHANGED <<parent, name, roles, dryRunOnly, missingRoles,
                 groupsWithMissingRole, todo, visited, classified, answer,
                 nextRole, roles0, realmRoles0, rerun, confirmed>>

\* The operator starts the program a second time once it has ended: the
\* accumulators are fresh, the properties are read anew, the provider is as
\* the first run left it.
Rerun ==
  /\ pc \in {"done", "panic"}
  /\ ~rerun
  /\ rerun' = TRUE
  /\ dryRunOnly' \in BOOLEAN
  /\ missingRoles' = <<>>
  /\ groupsWithMissingRole' = EmptyMap
  /\ todo' = <<>>
  /\ visited' = <<>>
  /\ classified' = [g \in {} |-> FALSE]
  /\ pc' = "start"
  /\ answer' = <<>>
  /\ nextRole' = 1
  /\ toMap' = {}
  /\ calls' = <<>>
  /\ lastAdd' = NoAdd
  /\ roles0' = roles
  /\ realmRoles0' = realmRoles
  /\ UNCHANGED <<provider, confirmed, faults>>

Next ==
  \/ prepareMapper
  \/ prepareMapperForGroup
  \/ printMapper
  \/ createRolesAndMappings
  \/ createRoleByName
  \/ addRoleToGroup
  \/ Rerun

Spec == Init /\ [][Next]_vars

\* ---------------------------------------------------------------- claims

\* The walk has run to its end in this run.
WalkComplete == pc \in {"print", "confirm", "creating", "mapping", "done"}

\* The group was found unmapped: its name is not among its mapped role names.
Unmapped(g) == name[g] \notin Range(realmRoles0[g])

\* C1: a visited group is classified Mapped exactly when its re-fetched list of
\* realm-role names holds a string equal to its own name, letter case included.
C1_MappedIffExactName ==
  \A g \in DOMAIN classified :
    classified[g] <=> (\E i \in DOMAIN realmRoles0[g] : realmRoles0[g][i] = name[g])

\* A group whose only role differs from its name in letter case was classified
\* unmapped, and a group with two roles was classified Mapped.
C1_Witness ==
  \E g, h \in DOMAIN classified :
    /\ realmRoles0[g] = <<"A">> /\ name[g] = "a" /\ ~classified[g]
    /\ Len(realmRoles0[h]) = 2 /\ classified[h]

\* C2: after a first run whose answer was affirmative and in which no remote
\* call returned an error, the walk of a second run ends with an empty change
\* set.
C2_RerunIsEmpty ==
  (rerun /\ confirmed /\ faults = 0 /\ WalkComplete)
    => (missingRoles = <<>> /\ DOMAIN groupsWithMissingRole = {})

\* The second walk has ended after a confirmed first run that left two groups
\* of the same name mapped to the one role of that name.
C2_Witness ==
  /\ rerun /\ confirmed /\ faults = 0
  /\ pc = "print"
  /\ Ids = {1, 2}
  /\ name[1] = name[2]
  /\ roles0 = {name[1]}
  /\ \A g \in Ids : realmRoles0[g] = <<name[g]>> /\ g \in DOMAIN classified

\* C3: missingRoles never holds a role name twice.
C3_NoDuplicateMissingRoles ==
  \A i, j \in DOMAIN missingRoles : i # j => missingRoles[i] # missingRoles[j]

\* The number of CreateRole calls among the first k calls.
CreatesBefore(k) == Cardinality({j \in 1..k : calls[j].op = "CreateRole"})

\* C4: every AddRealmRoles call comes after a CreateRole call for each element
\* of missingRoles, and no CreateRole call comes after an AddRealmRoles call.
C4_RolesBeforeMappings ==
  \A i \in DOMAIN calls :
    calls[i].op = "AddRealmRoles" =>
      /\ CreatesBefore(i - 1) = Len(missingRoles)
      /\ \A j \in DOMAIN calls : j > i => calls[j].op = "AddRealmRoles"

\* Two roles were created and then two mappings were added.
C4_Witness ==
  /\ Len(calls) = 4
  /\ calls[2].op = "CreateRole"
  /\ calls[3].op = "AddRealmRoles"

\* The trimmed answer does not begin with Y or y.
Declined(a) ==
  LET t == TrimSpace(a) IN t = <<>> \/ t[1] \notin {89, 121}

\* C5: with a declined answer the run issues no CreateRole and no AddRealmRoles
\* call, never enters the apply loops, and leaves the roles and the mappings
\* of the provider as they were.
C5_DeclinedDoesNothing ==
  Declined(answer) =>
    /\ calls = <<>>
    /\ pc \notin {"creating", "mapping"}
    /\ roles = roles0
    /\ realmRoles = realmRoles0

\* A run with a change set of two roles ended on an answer that holds a y
\* after another letter.
C5_Witness ==
  /\ pc = "done"
  /\ answer = <<110, 121, 10>>
  /\ Len(missingRoles) = 2

\* C6: a CreateRole or AddRealmRoles call that failed is the last call of the
\* run, and the run has ended in the error state.
C6_FailureAborts ==
  \A i \in DOMAIN calls :
    ~calls[i].ok => (i = Len(calls) /\ pc = "panic")

\* C7: up to the end of the report the roles and the mappings of the provider
\* are those the run started with, they still are when a dry run has ended,
\* and the report step leaves both accumulators as they were.
C7_WalkAndReportOnlyRead ==
  /\ [](((pc \in {"start", "walk", "print", "confirm"}) \/ dryRunOnly)
          => (roles = roles0 /\ realmRoles = realmRoles0))
  /\ [][pc = "print" =>
          /\ missingRoles' = missingRoles
          /\ groupsWithMissingRole' = groupsWithMissingRole
          /\ roles' = roles
          /\ realmRoles' = realmRoles]_vars

\* A first run that was a dry run has ended with a role to create.
C7_Witness ==
  /\ pc = "done"
  /\ dryRunOnly
  /\ ~rerun
  /\ missingRoles # <<>>
  /\ DOMAIN groupsWithMissingRole # {}

\* C8: when the walk has ended, the keys of groupsWithMissingRole are the
\* unmapped groups, each with its own name as value, and the names in
\* missingRoles are the names of the unmapped groups that had no role of
\* their name.
C8_ChangeSetMatchesClassification ==
  pc = "print" =>
    /\ DOMAIN classified = Ids
    /\ DOMAIN groupsWithMissingRole = {g \in Ids : ~classified[g]}
    /\ \A g \in DOMAIN groupsWithMissingRole : groupsWithMissingRole[g] = name[g]
    /\ Range(missingRoles) = {name[g] : g \in {h \in Ids : Unmapped(h) /\ name[h] \notin roles0}}

\* The walk ended with one group whose role is missing and another whose
\* role exists but is not mapped.
C8_Witness ==
  /\ pc = "print"
  /\ Len(missingRoles) = 1
  /\ \E g \in DOMAIN groupsWithMissingRole : name[g] \in roles0

RECURSIVE IsDescendant(_, _)
IsDescendant(d, a) ==
  parent[d] # 0 /\ (parent[d] = a \/ IsDescendant(parent[d], a))

\* C9: no group is visited twice; a group is visited after its parent and
\* after its siblings listed before it; the descendants of a group follow it
\* without a group from elsewhere in between; and when the walk has ended
\* every group was visited, whatever its parent was classified as.
C9_PreOrderOnce ==
  /\ \A i, j \in DOMAIN visited : i # j => visited[i] # visited[j]
  /\ \A j \in DOMAIN visited :
       \A g \in Ids :
         (g = parent[visited[j]] \/ (parent[g] = parent[visited[j]] /\ g < visited[j]))
           => \E i \in 1..(j - 1) : visited[i] = g
  /\ \A i, k, j \in DOMAIN visited :
       (i < k /\ k < j /\ IsDescendant(visited[j], visited[i]))
         => IsDescendant(visited[k], visited[i])
  /\ WalkComplete => Range(visited) = Ids
  /\ DOMAIN classified = Range(visited)

\* The walk ended having recorded an unmapped sub-group of a Mapped group.
C9_Witness ==
  /\ pc = "print"
  /\ \E c \in DOMAIN groupsWithMissingRole :
       parent[c] # 0 /\ classified[parent[c]]

\* C10: the role of every AddRealmRoles call existed in the provider when the
\* call was made and is the one role named as the group recorded under the
\* call's group id; no role and no mapping is ever taken away.
C10_BindsExistingSameNamedRole ==
  /\ lastAdd.gid # 0 =>
       /\ lastAdd.existed
       /\ lastAdd.gid \in DOMAIN groupsWithMissingRole
       /\ lastAdd.roles = <<groupsWithMissingRole[lastAdd.gid]>>
       /\ lastAdd.roles = <<name[lastAdd.gid]>>
  /\ roles0 \subseteq roles
  /\ \A g \in Ids : Range(realmRoles0[g]) \subseteq Range(realmRoles[g])
  /\ \A i \in DOMAIN calls : calls[i].op \in {"CreateRole", "AddRealmRoles"}

\* A mapping was added with a role that was created earlier in the same run,
\* after a mapping with a role that existed before the walk.
C10_Witness ==
  /\ lastAdd.gid # 0
  /\ lastAdd.roles[1] \notin roles0
  /\ Len(calls) = 3
  /\ \E g \in Ids : g \notin toMap /\ g # lastAdd.gid
                    /\ g \in DOMAIN groupsWithMissingRole /\ name[g] \in roles0

====
